---- MODULE Spec2Model ----
(***************************************************************************)
(* PyDeployer: a stage runner in two variants.                             *)
(*   git variant    src/pydeployer.py  (clone, build, test, deploy,        *)
(*                                      rollback through the git CLI)      *)
(*   docker variant src/PyDeployer.py  (build, test through docker)        *)
(* One run = one process: the module-level code creates the run's log      *)
(* file, then run_stage loads pipeline.yml, (git variant) prunes old logs, *)
(* looks the stage up and runs its handler.  Runs do not overlap.          *)
(* Time is a logical clock: it ticks when a run starts and when a log file *)
(* is touched between runs, so every write of a run carries the run's tick *)
(* and modification times order the files as the real clock would.         *)
(***************************************************************************)
EXTENDS Integers, Sequences, FiniteSets, TLC

\* ---------------------------------------------------------------- bounds
MaxRuns == 13
MaxTouches == 1

\* ------------------------------------------------------ program constants
KeepLogs == 10

Variants == {"git", "docker"}
StageNames == {"clone", "build", "test", "deploy", "rollback", "bogus"}
LogStageNames == {"clone", "bogus"}

Missing == "<missing>"
DefaultTarget == "target_repo"
DefaultTestCommand == "pytest -v"
DefaultBranch == "main"
RepoUrl == "https://example.org/app.git"
DockerImage == "pydeployer:latest"

\* ------------------------------------------------------------ pipeline.yml
\* A document is flattened to the keys the code reads.  doc: "absent" (no
\* file), "empty" (yaml.safe_load gives None) or "map".  repo: Missing (no
\* key), "null" (the key with no value: None) or "map".
Doc(d, r, u, t, tc, b, sb, st) ==
    [doc |-> d, repo |-> r, url |-> u, target |-> t, testCommand |-> tc,
     branch |-> b, stagesBuild |-> sb, stagesTest |-> st]

AbsentFile == Doc("absent", Missing, Missing, Missing, Missing, Missing, Missing, Missing)
EmptyFile == Doc("empty", Missing, Missing, Missing, Missing, Missing, Missing, Missing)
EmptyMapping == Doc("map", Missing, Missing, Missing, Missing, Missing, Missing, Missing)
NoneConfig == Doc("none", Missing, Missing, Missing, Missing, Missing, Missing, Missing)

PipelineFiles ==
    { AbsentFile,
      EmptyFile,
      Doc("map", "map", RepoUrl, Missing, Missing, Missing, Missing, Missing),
      Doc("map", "map", RepoUrl, "app", "make check", "dev", "img:v1", "pytest"),
      Doc("map", "map", "", Missing, Missing, Missing, Missing, Missing),
      Doc("map", "map", Missing, "app", Missing, Missing, "img:v1", Missing),
      Doc("map", "null", Missing, Missing, Missing, Missing, Missing, "pytest") }

LogPipelineFiles ==
    { AbsentFile,
      Doc("map", "map", RepoUrl, "app", "make check", "dev", "img:v1", "pytest") }

VARIABLES
    variant,    \* which script is deployed
    runs,       \* runs started so far; the current run's log file is number runs
    clock,      \* logical time
    touches,    \* log files touched between runs so far
    logs,       \* logs/ : log file number -> modification time
    deleted,    \* log files unlinked so far -> modification time when unlinked
    dirs,       \* target repository directories that exist under BASE_DIR
    cloned,     \* targets a successful git clone has created
    pc,         \* "idle", "run_stage", "handler" or "exited"
    stage,      \* the stage name given to run_stage
    pipeline,   \* pipeline.yml as this run finds it
    config,     \* what load_config returned
    pending,    \* the handler's external commands still to run
    cmds,       \* external commands attempted in this run, with their outcome
    handlers,   \* stage handlers invoked in this run
    printed,    \* console messages of this run
    logged,     \* records written to this run's log file
    status,     \* "running", or the exit status "0" / "1"
    trace,      \* the steps of run_stage taken in this run
    atCall      \* logs, dirs and cloned as they were when run_stage was called

fsVars == <<logs, deleted, dirs, cloned>>
runVars == <<stage, pipeline, config, pending, cmds, handlers, printed,
             logged, status, trace, atCall>>
vars == <<variant, runs, clock, touches, logs, deleted, dirs, cloned, pc, stage,
          pipeline, config, pending, cmds, handlers, printed, logged, status,
          trace, atCall>>

EmptyFn == [x \in {} |-> 0]

Restrict(f, S) == [x \in S |-> f[x]]

Min(a, b) == IF a < b THEN a ELSE b

Init ==
    /\ variant \in Variants
    /\ runs = 0
    /\ clock = 0
    /\ touches = 0
    /\ logs = EmptyFn
    /\ deleted = EmptyFn
    /\ dirs = {}
    /\ cloned = {}
    /\ pc = "idle"
    /\ stage = "bogus"
    /\ pipeline = AbsentFile
    /\ config = NoneConfig
    /\ pending = <<>>
    /\ cmds = <<>>
    /\ handlers = <<>>
    /\ printed = {}
    /\ logged = {}
    /\ status = "running"
    /\ trace = <<>>
    /\ atCall = [logs |-> EmptyFn, dirs |-> {}, cloned |-> {}]

\* ------------------------------------------------------------- helpers
Msg(kind, what) == <<kind, what>>

Cmd(argv, cwd) == [argv |-> argv, cwd |-> cwd]

\* No exception: the call returned.
NoRaise == "none"

Outcome(raise, pend, out, rec) ==
    [raise |-> raise, pending |-> pend, printed |-> out, logged |-> rec]

\* str.split() of the configured test commands.
Split(s) ==
    CASE s = "pytest -v" -> <<"pytest", "-v">>
      [] s = "make check" -> <<"make", "check">>
      [] s = "pytest" -> <<"pytest">>
      [] OTHER -> <<s>>

\* config.get("repo", {}) is None when pipeline.yml holds "repo:" with no
\* value, and None.get raises AttributeError.
RepoRaises(cfg) == cfg.repo = "null"

\* config.get(section, {}).get(key, default), on the flattened document.
ConfigGet(cfg, key, default) ==
    IF cfg[key] = Missing THEN default ELSE cfg[key]

\* A test for None alone: the empty string passes.
NotNone(v) == v # Missing

\* Python truthiness of repo_url: None and "" are false.
Truthy(v) == v # Missing /\ v # ""

TargetDir(cfg) == ConfigGet(cfg, "target", DefaultTarget)

\* A missing pipeline.yml ends the run.
load_config_fatal(file) ==
    IF file.doc = "absent"
    THEN [exits |-> TRUE, config |-> EmptyMapping,
          printed |-> {Msg("error", "pipeline.yml not found!")}]
    ELSE [exits |-> FALSE,
          config |-> IF file.doc = "empty" THEN EmptyMapping ELSE file,
          printed |-> {}]

\* ------------------------------------------------------------ load_config
load_config(file) ==
    IF file.doc = "absent"
    THEN [exits |-> FALSE, config |-> EmptyMapping,
          printed |-> {Msg("warn", "pipeline.yml not found, continuing with defaults")}]
    ELSE [exits |-> FALSE,
          config |-> IF file.doc = "empty" THEN EmptyMapping ELSE file,
          printed |-> {}]

load_config_docker(file) ==
    IF file.doc = "absent"
    THEN [exits |-> TRUE, config |-> NoneConfig,
          printed |-> {Msg("error", "pipeline.yml not found!")}]
    ELSE [exits |-> FALSE,
          config |-> IF file.doc = "empty" THEN NoneConfig ELSE file,
          printed |-> {}]

LoadConfig(v, file) ==
    IF v = "git" THEN load_config(file) ELSE load_config_docker(file)

\* --------------------------------------------------------- clean_old_logs
\* The files sorted by name (their timestamp), newest name first.
RankByName(ls, f) == 1 + Cardinality({g \in DOMAIN ls : g > f})

\* The position of file f in sorted(..., key=st_mtime, reverse=True): one
\* more than the number of files modified after it.
RankDesc(ls, f) == 1 + Cardinality({g \in DOMAIN ls : ls[g] > ls[f]})

\* The sort without reverse=True: the oldest files are kept.
OldLogsAscending(ls) ==
    {f \in DOMAIN ls : 1 + Cardinality({g \in DOMAIN ls : ls[g] < ls[f]}) > KeepLogs}

\* logs[10:] of the sorted list.
OldLogs(ls) == {f \in DOMAIN ls : RankDesc(ls, f) > KeepLogs}

\* A record written through the FileHandler sets the file's modification
\* time; an unlinked file is not created again by a write.
WriteLog(ls, f, now) == IF f \in DOMAIN ls THEN [ls EXCEPT ![f] = now] ELSE ls

clean_old_logs(ls) == Restrict(ls, DOMAIN ls \ OldLogs(ls))

\* ------------------------------------------------------------ the stages
\* A lookup that falls back to a handler for any name.
stagesAny(v) == StageNames

stages(v) ==
    IF v = "git" THEN {"clone", "build", "test", "deploy", "rollback"}
    ELSE {"build", "test"}

\* clone_repo without the test of target_path.exists().
clone_repo_always(cfg, ds) ==
    IF RepoRaises(cfg) THEN Outcome("AttributeError", <<>>, {}, {})
    ELSE IF ~Truthy(ConfigGet(cfg, "url", Missing))
    THEN Outcome("SystemExit", <<>>, {Msg("error", "No repository URL specified")}, {})
    ELSE Outcome(NoRaise,
                 <<Cmd(<<"git", "clone", cfg.url, TargetDir(cfg)>>, "")>>, {}, {})

clone_repo(cfg, ds) ==
    IF RepoRaises(cfg) THEN Outcome("AttributeError", <<>>, {}, {})
    ELSE IF ~Truthy(ConfigGet(cfg, "url", Missing))
    THEN Outcome("SystemExit", <<>>, {Msg("error", "No repository URL specified")}, {})
    ELSE IF TargetDir(cfg) \in ds
    THEN Outcome(NoRaise, <<Cmd(<<"git", "pull">>, TargetDir(cfg))>>, {}, {})
    ELSE Outcome(NoRaise,
                 <<Cmd(<<"git", "clone", cfg.url, TargetDir(cfg)>>, "")>>, {}, {})

\* build without the test of repo_dir.exists().
build_unguarded(cfg, ds) ==
    IF RepoRaises(cfg) THEN Outcome("AttributeError", <<>>, {}, {})
    ELSE Outcome(NoRaise,
                 <<Cmd(<<"git", "add", ".">>, TargetDir(cfg)),
                   Cmd(<<"git", "commit", "-m", "Build commit">>, TargetDir(cfg))>>,
                 {}, {})

build(cfg, ds) ==
    IF RepoRaises(cfg) THEN Outcome("AttributeError", <<>>, {}, {})
    ELSE IF TargetDir(cfg) \notin ds
    THEN Outcome("SystemExit", <<>>, {Msg("error", "Repository not cloned yet")}, {})
    ELSE Outcome(NoRaise,
                 <<Cmd(<<"git", "add", ".">>, TargetDir(cfg)),
                   Cmd(<<"git", "commit", "-m", "Build commit">>, TargetDir(cfg))>>,
                 {}, {})

test(cfg) ==
    IF RepoRaises(cfg) THEN Outcome("AttributeError", <<>>, {}, {})
    ELSE Outcome(NoRaise,
                 <<Cmd(Split(ConfigGet(cfg, "testCommand", DefaultTestCommand)),
                       TargetDir(cfg))>>,
                 {}, {})

deploy(cfg) ==
    IF RepoRaises(cfg) THEN Outcome("AttributeError", <<>>, {}, {})
    ELSE Outcome(NoRaise,
                 <<Cmd(<<"git", "pull", "origin",
                         ConfigGet(cfg, "branch", DefaultBranch), "--rebase">>,
                       TargetDir(cfg)),
                   Cmd(<<"git", "push", "origin",
                         ConfigGet(cfg, "branch", DefaultBranch)>>, TargetDir(cfg))>>,
                 {}, {})

rollback(cfg) ==
    IF RepoRaises(cfg) THEN Outcome("AttributeError", <<>>, {}, {})
    ELSE Outcome(NoRaise,
                 <<Cmd(<<"git", "revert", "--no-edit", "HEAD">>, TargetDir(cfg)),
                   Cmd(<<"git", "push", "origin", "main">>, TargetDir(cfg))>>,
                 {}, {})

\* config["stages"]["build"]["image_name"]: None is not subscriptable, a
\* missing key raises KeyError.
build_docker(cfg) ==
    IF cfg.doc = "none" THEN Outcome("TypeError", <<>>, {}, {})
    ELSE IF cfg.stagesBuild = Missing THEN Outcome("KeyError", <<>>, {}, {})
    ELSE Outcome(NoRaise,
                 <<Cmd(<<"docker", "build", "-t", cfg.stagesBuild, ".">>, "")>>,
                 {}, {})

test_docker(cfg) ==
    IF cfg.doc = "none" THEN Outcome("TypeError", <<>>, {}, {})
    ELSE IF cfg.stagesTest = Missing THEN Outcome("KeyError", <<>>, {}, {})
    ELSE Outcome(NoRaise,
                 <<Cmd(<<"docker", "run", "--rm", DockerImage, "bash", "-c",
                         cfg.stagesTest>>, "")>>,
                 {}, {Msg("info", "Running tests with")})

\* The handler's code up to its first external command.
Handler(v, st, cfg, ds) ==
    IF v = "git"
    THEN CASE st = "clone" -> clone_repo(cfg, ds)
           [] st = "build" -> build(cfg, ds)
           [] st = "test" -> test(cfg)
           [] st = "deploy" -> deploy(cfg)
           [] OTHER -> rollback(cfg)
    ELSE IF st = "build" THEN build_docker(cfg) ELSE test_docker(cfg)

\* What a handler prints and logs after its last command returned.
Success(v, st) ==
    [printed |-> {Msg("success", st)},
     logged |-> IF v = "git" /\ st = "test" THEN {} ELSE {Msg("info", "finished successfully")}]

\* run_cmd that does not log e.stderr.
run_cmd_silent(cmd, rc, ds) ==
    IF cmd.cwd # "" /\ cmd.cwd \notin ds
    THEN [raise |-> "FileNotFoundError", rc |-> "notspawned", printed |-> {}, logged |-> {}]
    ELSE IF rc = 0
    THEN [raise |-> NoRaise, rc |-> "0", printed |-> {}, logged |-> {}]
    ELSE [raise |-> "SystemExit", rc |-> "nonzero",
          printed |-> {Msg("error", "Command failed")}, logged |-> {}]

\* run_cmd with check=False: a non-zero exit code raises nothing.
run_cmd_unchecked(cmd, rc, ds) ==
    IF cmd.cwd # "" /\ cmd.cwd \notin ds
    THEN [raise |-> "FileNotFoundError", rc |-> "notspawned", printed |-> {}, logged |-> {}]
    ELSE [raise |-> NoRaise, rc |-> IF rc = 0 THEN "0" ELSE "nonzero",
          printed |-> {}, logged |-> {}]

\* ---------------------------------------------------------------- run_cmd
\* rc is the process's exit code.  With a cwd that does not exist the
\* process is never started and subprocess.run raises FileNotFoundError.
run_cmd(cmd, rc, ds) ==
    IF cmd.cwd # "" /\ cmd.cwd \notin ds
    THEN [raise |-> "FileNotFoundError", rc |-> "notspawned", printed |-> {}, logged |-> {}]
    ELSE IF rc = 0
    THEN [raise |-> NoRaise, rc |-> "0", printed |-> {}, logged |-> {}]
    ELSE [raise |-> "SystemExit", rc |-> "nonzero",
          printed |-> {Msg("error", "Command failed")},
          logged |-> {Msg("error", "stderr")}]

\* subprocess.run(cmd, check=True) inside try/except CalledProcessError.
run_docker(cmd, rc) ==
    IF rc = 0
    THEN [raise |-> NoRaise, rc |-> "0", printed |-> {}, logged |-> {}]
    ELSE [raise |-> "SystemExit", rc |-> "nonzero",
          printed |-> {Msg("error", "failed!")},
          logged |-> {Msg("error", "failed")}]

RunCommand(v, cmd, rc, ds) ==
    IF v = "git" THEN run_cmd(cmd, rc, ds) ELSE run_docker(cmd, rc)

\* test and rollback wrap their commands in try/except Exception, which
\* SystemExit (a BaseException) passes through.
Catches(v, st, exc) ==
    v = "git" /\ st \in {"test", "rollback"} /\ exc # "SystemExit"

\* What reaches the console when exc leaves the handler's commands.
Raised(v, st, exc) ==
    IF exc = "SystemExit" THEN {}
    ELSE IF Catches(v, st, exc) THEN {Msg("error", "stage failed")}
    ELSE {Msg("traceback", exc)}

\* The process's exit status: sys.exit(1), or an uncaught exception (1), or
\* run_stage returned (0).
ExitStatus(exc) == IF exc = NoRaise THEN "0" ELSE "1"

\* git clone <url> <target> creates <target> in the working directory.
CreatedDirs(cmd, rc, inB) ==
    IF rc = "0" /\ Len(cmd.argv) = 4 /\ cmd.argv[2] = "clone" /\ inB
    THEN {cmd.argv[4]} ELSE {}

\* ------------------------------------------------------------- run_stage
\* run_stage without the call of clean_old_logs.
RunStageStepsNoClean(v) == <<"load_config", "dispatch">>

RunStageSteps(v) ==
    IF v = "git" THEN <<"load_config", "clean_old_logs", "dispatch">>
    ELSE <<"load_config", "dispatch">>

NextStep(v, tr) ==
    IF Len(tr) < Len(RunStageSteps(v)) THEN RunStageSteps(v)[Len(tr) + 1] ELSE "none"

\* ---------------------------------------------------------------- actions
\* The process ends: the steps not taken stay not taken.
Exit(exc) ==
    /\ pc' = "exited"
    /\ status' = ExitStatus(exc)

\* A new process starts: the module-level code creates logs/ and this run's
\* log file (logging.FileHandler opens it), and run_stage is called.
StartRun(names, files) ==
    /\ pc \in {"idle", "exited"}
    /\ runs < MaxRuns
    /\ runs' = runs + 1
    /\ clock' = clock + 1
    /\ logs' = [f \in DOMAIN logs \cup {runs + 1} |->
                   IF f = runs + 1 THEN clock + 1 ELSE logs[f]]
    /\ stage' \in names
    /\ pipeline' \in files
    /\ config' = NoneConfig
    /\ pending' = <<>>
    /\ cmds' = <<>>
    /\ handlers' = <<>>
    /\ printed' = {}
    /\ logged' = {}
    /\ status' = "running"
    /\ trace' = <<>>
    /\ atCall' = [logs |-> logs', dirs |-> dirs, cloned |-> cloned]
    /\ pc' = "run_stage"
    /\ UNCHANGED <<variant, touches, deleted, dirs, cloned>>

\* Between two runs somebody modifies an existing log file.
Touch ==
    /\ pc = "exited"
    /\ touches < MaxTouches
    /\ \E f \in DOMAIN logs :
          /\ logs[f] < clock
          /\ logs' = [logs EXCEPT ![f] = clock + 1]
    /\ clock' = clock + 1
    /\ touches' = touches + 1
    /\ UNCHANGED <<variant, runs, deleted, dirs, cloned, pc>>
    /\ UNCHANGED runVars

\* config = load_config()
LoadConfigStep ==
    /\ pc = "run_stage"
    /\ NextStep(variant, trace) = "load_config"
    /\ LET r == LoadConfig(variant, pipeline) IN
          /\ config' = r.config
          /\ printed' = printed \cup r.printed
          /\ IF r.exits
             THEN /\ Exit("SystemExit")
                  /\ trace' = trace \o <<"load_config", "exit">>
             ELSE /\ trace' = Append(trace, "load_config")
                  /\ UNCHANGED <<pc, status>>
    /\ UNCHANGED <<variant, runs, clock, touches, stage, pipeline,
                   pending, cmds, handlers, logged, atCall>>
    /\ UNCHANGED fsVars

\* clean_old_logs()
CleanOldLogsStep ==
    /\ pc = "run_stage"
    /\ NextStep(variant, trace) = "clean_old_logs"
    /\ LET old == OldLogs(logs) IN
          /\ logs' = IF old = {} THEN logs
                     ELSE WriteLog(clean_old_logs(logs), runs, clock)
          /\ deleted' = [f \in DOMAIN deleted \cup old |->
                            IF f \in old THEN logs[f] ELSE deleted[f]]
          /\ logged' = IF old = {} THEN logged
                       ELSE logged \cup {Msg("info", "Deleted old log")}
    /\ trace' = Append(trace, "clean_old_logs")
    /\ UNCHANGED <<variant, runs, clock, touches, dirs, cloned, pc, stage,
                   pipeline, config, pending, cmds, handlers, printed,
                   status, atCall>>

\* if stage_name in stages: stages[stage_name](config)  else: warn(...)
Dispatch ==
    /\ pc = "run_stage"
    /\ NextStep(variant, trace) = "dispatch"
    /\ IF stage \in stages(variant)
       THEN LET r == Handler(variant, stage, config, dirs) IN
               /\ handlers' = Append(handlers, stage)
               /\ printed' = printed \cup {Msg("info", "Starting stage")} \cup r.printed
                                \cup Raised(variant, stage, r.raise)
               /\ logged' = logged \cup r.logged
               /\ pending' = r.pending
               /\ IF r.raise = NoRaise
                  THEN /\ pc' = "handler"
                       /\ trace' = Append(trace, "dispatch")
                       /\ UNCHANGED status
                  ELSE /\ Exit(r.raise)
                       /\ trace' = trace \o <<"dispatch", "exit">>
       ELSE /\ printed' = printed \cup {Msg("warn", "not implemented yet")}
            /\ Exit(NoRaise)
            /\ trace' = trace \o <<"dispatch", "exit">>
            /\ UNCHANGED <<handlers, logged, pending>>
    /\ UNCHANGED <<variant, runs, clock, touches, stage, pipeline,
                   config, cmds, atCall>>
    /\ UNCHANGED fsVars

\* The handler runs its next external command, which ends with exit code rc;
\* inB: the process was started with BASE_DIR as its working directory.
RunNextCommand ==
    /\ pc = "handler"
    /\ pending # <<>>
    /\ \E rc \in {0, 1}, inB \in BOOLEAN :
          LET cmd == Head(pending)
              r == RunCommand(variant, cmd, rc, dirs)
              made == CreatedDirs(cmd, r.rc, inB)
              last == r.raise = NoRaise /\ Len(pending) = 1
              done == IF last THEN Success(variant, stage)
                      ELSE [printed |-> {}, logged |-> {}]
          IN  /\ cmds' = Append(cmds, [argv |-> cmd.argv, cwd |-> cmd.cwd, rc |-> r.rc])
              /\ printed' = printed \cup r.printed \cup done.printed
                               \cup Raised(variant, stage, r.raise)
              /\ logged' = logged \cup r.logged \cup done.logged
              /\ logs' = WriteLog(logs, runs, clock)
              /\ dirs' = dirs \cup made
              /\ cloned' = cloned \cup made
              /\ IF r.raise = NoRaise
                 THEN /\ pending' = Tail(pending)
                      /\ IF last
                         THEN /\ Exit(NoRaise)
                              /\ trace' = Append(trace, "exit")
                         ELSE UNCHANGED <<pc, status, trace>>
                 ELSE /\ Exit(r.raise)
                      /\ trace' = Append(trace, "exit")
                      /\ UNCHANGED pending
    /\ UNCHANGED <<variant, runs, clock, touches, deleted, stage, pipeline,
                   config, handlers, atCall>>

Next ==
    \/ StartRun(StageNames, PipelineFiles)
    \/ LoadConfigStep
    \/ CleanOldLogsStep
    \/ Dispatch
    \/ RunNextCommand

Spec == Init /\ [][Next]_vars

\* Runs of a few stages, with log files touched between the runs.
NextLogs ==
    \/ StartRun(LogStageNames, LogPipelineFiles)
    \/ Touch
    \/ LoadConfigStep
    \/ CleanOldLogsStep
    \/ Dispatch
    \/ RunNextCommand

SpecLogs == Init /\ [][NextLogs]_vars

\* ------------------------------------------------------------ properties
Count(seq, x) == Cardinality({i \in DOMAIN seq : seq[i] = x})

IsPrefix(a, b) == Len(a) <= Len(b) /\ \A i \in DOMAIN a : a[i] = b[i]

KnownStages == {"clone", "build", "test", "deploy", "rollback"}

\* Every file unlinked so far was, when unlinked, older than every file kept.
KeptAreNewest == \A d \in DOMAIN deleted : \A f \in DOMAIN logs : deleted[d] < logs[f]

NoUrl(file) == file.doc \in {"absent", "empty"} \/ file.url \in {Missing, ""}

Warned == Msg("warn", "not implemented yet") \in printed

C9_CurrentLogSurvives ==
    pc # "idle" =>
        /\ runs \in DOMAIN logs
        /\ \A d \in DOMAIN deleted : d < runs

\* This run's clean_old_logs has deleted a file and the handler has started.
C9_Witness ==
    /\ variant = "git"
    /\ pc = "handler"
    /\ DOMAIN atCall.logs # DOMAIN logs
    /\ runs \in DOMAIN logs

C3_Original ==
    \A i \in DOMAIN cmds :
        (cmds[i].rc = "nonzero" /\ stage \in {"build", "test", "deploy", "rollback"}) =>
            /\ pc = "exited"
            /\ status = "1"
            /\ Msg("error", "stderr") \in logged

\* C3 amended: such a command ends the run with status 1 in either script;
\* the git script writes its captured stderr to the log, the docker script
\* captures nothing and logs only its fixed failure record.
C3_CommandFailure ==
    \A i \in DOMAIN cmds :
        (cmds[i].rc = "nonzero" /\ stage \in {"build", "test", "deploy", "rollback"}) =>
            /\ pc = "exited"
            /\ status = "1"
            /\ variant = "git" => Msg("error", "stderr") \in logged
            /\ variant = "docker" =>
                  /\ Msg("error", "stderr") \notin logged
                  /\ Msg("error", "failed") \in logged

\* The second command of a git rollback has exited non-zero.
C3_Witness ==
    /\ variant = "git"
    /\ stage = "rollback"
    /\ Len(cmds) = 2
    /\ cmds[2].rc = "nonzero"

\* C4: a clone run of the git script whose pipeline.yml gives no repo.url
\* (no file, an empty file, no key, an empty value) exits 1 without
\* attempting an external command, whether or not the target exists.
C4_CloneWithoutUrl ==
    (variant = "git" /\ stage = "clone" /\ NoUrl(pipeline)) =>
        /\ cmds = <<>>
        /\ pc = "exited" => status = "1"

\* Such a run has ended while its target directory exists.
C4_Witness ==
    /\ variant = "git"
    /\ stage = "clone"
    /\ pc = "exited"
    /\ pipeline.url = ""
    /\ DefaultTarget \in dirs

\* The handler of a run that found no pipeline.yml works on the defaults:
\* target_repo, "pytest -v", branch main.
UsesDefaults ==
    \A i \in DOMAIN cmds :
        /\ cmds[i].cwd \in {"", DefaultTarget}
        /\ stage = "test" => cmds[i].argv = <<"pytest", "-v">> /\ cmds[i].cwd = DefaultTarget
        /\ stage = "deploy" => cmds[i].argv[4] = DefaultBranch /\ cmds[i].cwd = DefaultTarget
        /\ stage \in {"build", "rollback"} => cmds[i].cwd = DefaultTarget

\* C5 as stated: without pipeline.yml load_config returns an empty mapping,
\* the run does not end there, and run_stage invokes the requested stage's
\* handler, which uses the defaults.
C5_Original ==
    (pipeline.doc = "absent" /\ Len(trace) >= 1) =>
        /\ config = EmptyMapping
        /\ trace # <<"load_config", "exit">>
        /\ (pc = "exited" /\ stage \in KnownStages) => handlers = <<stage>>
        /\ UsesDefaults

\* C5 amended: that holds of the git script; the docker script's load_config
\* ends the run with status 1 before any handler or command.
C5_MissingConfig ==
    (pipeline.doc = "absent" /\ Len(trace) >= 1) =>
        /\ variant = "git" =>
              /\ config = EmptyMapping
              /\ trace # <<"load_config", "exit">>
              /\ (pc = "exited" /\ stage \in KnownStages) => handlers = <<stage>>
              /\ UsesDefaults
        /\ variant = "docker" =>
              /\ pc = "exited"
              /\ status = "1"
              /\ trace = <<"load_config", "exit">>
              /\ handlers = <<>>
              /\ cmds = <<>>

\* Without pipeline.yml the git script's test stage has run "pytest -v" in
\* target_repo and the command returned zero.
C5_Witness ==
    /\ variant = "git"
    /\ pipeline.doc = "absent"
    /\ stage = "test"
    /\ pc = "exited"
    /\ Len(cmds) = 1
    /\ cmds[1].rc = "0"

\* C6: a command that exits non-zero is the last one the run attempts: the
\* run has ended with status 1 and without the stage's success message.
C6_FailFast ==
    \A i \in DOMAIN cmds :
        cmds[i].rc = "nonzero" =>
            /\ i = Len(cmds)
            /\ pc = "exited"
            /\ status = "1"
            /\ Msg("success", stage) \notin printed

\* The first command of a git deploy (git pull --rebase) has exited non-zero
\* and git push was never attempted.
C6_Witness ==
    /\ variant = "git"
    /\ stage = "deploy"
    /\ Len(cmds) = 1
    /\ cmds[1].rc = "nonzero"
    /\ Len(pending) = 2

\* The order of a run's steps, common to both statements of C7: at most one
\* handler is invoked and the run ends with status 0 or 1.
OneHandlerAndStatus ==
    /\ Len(handlers) <= 1
    /\ pc = "exited" => status \in {"0", "1"}
    /\ pc # "exited" => status = "running"

C8_CloneOrPull ==
    (variant = "git" /\ stage = "clone" /\ ~NoUrl(pipeline)) =>
        /\ Len(cmds) <= 1
        /\ pc = "exited" => Len(cmds) = 1
        /\ pc = "handler" => Len(cmds) = 0 /\ Len(pending) = 1
        /\ \A i \in DOMAIN cmds :
              /\ TargetDir(pipeline) \in atCall.dirs =>
                    cmds[i].argv = <<"git", "pull">> /\ cmds[i].cwd = TargetDir(pipeline)
              /\ TargetDir(pipeline) \notin atCall.dirs =>
                    cmds[i].argv = <<"git", "clone", pipeline.url, TargetDir(pipeline)>>
              /\ TargetDir(pipeline) \in atCall.cloned => cmds[i].argv[2] = "pull"

\* A clone run has pulled a target that an earlier clone run created.
C8_Witness ==
    /\ variant = "git"
    /\ stage = "clone"
    /\ pc = "exited"
    /\ status = "0"
    /\ TargetDir(pipeline) \in atCall.cloned
    /\ cmds[1].argv = <<"git", "pull">>

\* C10: a build of the git script started without the target directory
\* exits 1 without attempting an external command; git add and git commit
\* are attempted only when the directory existed at the start, and git
\* commit only after git add returned zero.
C10_BuildNeedsClone ==
    (variant = "git" /\ stage = "build") =>
        /\ (TargetDir(config) \notin atCall.dirs /\ pc = "exited") =>
              status = "1" /\ cmds = <<>>
        /\ cmds # <<>> => TargetDir(config) \in atCall.dirs
        /\ \A i \in DOMAIN cmds :
              /\ cmds[i].argv[2] \in {"add", "commit"}
              /\ cmds[i].argv[2] = "commit" =>
                    i > 1 /\ cmds[i - 1].argv[2] = "add" /\ cmds[i - 1].rc = "0"

\* A build was refused because the repository is not cloned yet.
C10_Witness ==
    /\ variant = "git"
    /\ stage = "build"
    /\ pc = "exited"
    /\ Msg("error", "Repository not cloned yet") \in printed
    /\ TargetDir(config) \notin dirs

====
